---- MODULE Spec2Model ----
(***************************************************************************)
(* Class Whisper: the App component's study-guide pipeline.                *)
(*                                                                         *)
(* The state is the React state of App (useState cells, the interval ref), *)
(* the browser's localStorage key 'studyHistory', the FileReaders whose    *)
(* callbacks are still due, and the handleGenerate invocations that are    *)
(* suspended at an await, each with the values its closure captured.       *)
(* Every action is one synchronous piece of code: an event handler, a      *)
(* callback, or the part of an async function between two awaits.          *)
(*                                                                         *)
(* Texts are TLA+ strings and are handled as the code handles them (trim,  *)
(* startsWith, slice, includes, split).  The TLA+ lexer rejects the        *)
(* backquote character inside a string, so the character "~" stands for    *)
(* the backquote in every response text and fence marker of this module.   *)
(***************************************************************************)
EXTENDS Integers, Sequences, FiniteSets, TLC

----------------------------------------------------------------------------
(* Bounds of the exploration *)

\* Date.now() is counted in appends to the history: two appends are at least
\* two 500 ms pauses apart, and the code only compares ids for equality.  No
\* run starts once the clock has passed MaxClock.
MaxClock == 1
\* FileReaders whose callback is still due: a file can be selected while the
\* read of another one is still under way.
MaxReaders == 2
\* Interval ticks explored while one remote call is outstanding (SpecTimer).
MaxTicks == 1

----------------------------------------------------------------------------
(* Optional values: null / undefined is <<>>, a value v is <<v>> *)

None == <<>>

Some(v) == <<v>>

----------------------------------------------------------------------------
(* String functions of the JavaScript runtime, as the code uses them *)

CharAt(s, i) == SubSeq(s, i, i)

IsSpace(c) == c \in {" ", "\n", "\t"}

RECURSIVE TrimStart(_)
TrimStart(s) ==
    IF Len(s) > 0 /\ IsSpace(CharAt(s, 1)) THEN TrimStart(SubSeq(s, 2, Len(s))) ELSE s

RECURSIVE TrimEnd(_)
TrimEnd(s) ==
    IF Len(s) > 0 /\ IsSpace(CharAt(s, Len(s))) THEN TrimEnd(SubSeq(s, 1, Len(s) - 1)) ELSE s

\* String.prototype.trim
Trim(s) == TrimEnd(TrimStart(s))

\* String.prototype.startsWith
StartsWith(s, p) == Len(s) >= Len(p) /\ SubSeq(s, 1, Len(p)) = p

\* String.prototype.includes
Includes(s, p) == \E i \in 1..(Len(s) - Len(p) + 1) : SubSeq(s, i, i + Len(p) - 1) = p

\* String.prototype.slice(from, -fromEnd): the characters at the 0-based
\* positions from .. Len - fromEnd - 1, the empty string when there are none.
SliceFromTo(s, from, fromEnd) ==
    IF Len(s) - fromEnd > from THEN SubSeq(s, from + 1, Len(s) - fromEnd) ELSE ""

\* The 1-based position of the first occurrence of the character c in s at or
\* after position i, 0 when there is none.
RECURSIVE IndexFrom(_, _, _)
IndexFrom(s, c, i) ==
    IF i > Len(s) THEN 0
    ELSE IF CharAt(s, i) = c THEN i
    ELSE IndexFrom(s, c, i + 1)

----------------------------------------------------------------------------
(* Files the user can select, and what FileReader.readAsDataURL yields *)

\* File names.
FileNames == {"a.mp3", "b.wav"}

\* The data URL of a file that has bytes and a type.
DataURL(name) ==
    IF name = "a.mp3" THEN "data:audio/mpeg;base64,QUFB" ELSE "data:audio/wav;base64,QkJC"

\* reader.result when the read of the file succeeds: its data URL, or "data:"
\* alone when the file turns out to have no bytes.
ReadResults(name) == { DataURL(name), "data:" }

\* result.split(',', 2): the text before the first comma, and the text between
\* the first and the second comma (None when there is no comma).
SplitHeader(result) ==
    LET c == IndexFrom(result, ",", 1)
    IN  IF c = 0 THEN result ELSE SubSeq(result, 1, c - 1)

SplitPayload(result) ==
    LET c == IndexFrom(result, ",", 1)
        d == IF c = 0 THEN 0 ELSE IndexFrom(result, ",", c + 1)
    IN  IF c = 0 THEN None
        ELSE IF d = 0 THEN Some(SubSeq(result, c + 1, Len(result)))
        ELSE Some(SubSeq(result, c + 1, d - 1))

\* header?.match(/:(.*?);/)?.[1]: the text between the first ':' and the next
\* ';' after it (None when the pattern does not match).
MimeOf(header) ==
    LET a == IndexFrom(header, ":", 1)
        b == IF a = 0 THEN 0 ELSE IndexFrom(header, ";", a + 1)
    IN  IF a = 0 \/ b = 0 THEN None ELSE Some(SubSeq(header, a + 1, b - 1))

\* JavaScript truthiness of an optional string: undefined and "" are falsy.
Truthy(opt) == opt # None /\ opt[1] # ""

\* Lines 203-207: the { data, mimeType } that the read of a file with bytes
\* and a type yields.
EncodedMedia(name) ==
    [data |-> SplitPayload(DataURL(name))[1],
     mimeType |-> MimeOf(SplitHeader(DataURL(name)))[1]]

----------------------------------------------------------------------------
(* Error values: what is thrown, and the { message, retryable } shown *)

\* A thrown value: an Error with a message (isError is err instanceof Error).
Err(msg) == [isError |-> TRUE, message |-> msg]

ApiKeyMsg == "API_KEY environment variable is not set."

NotReadyMsg ==
    "Audio data not ready. Please wait a moment after selecting a file or try re-selecting."

EmptyTranscriptMsg ==
    "Transcription failed: The model returned an empty transcript. The audio might be silent or in an unsupported format."

MalformedMsg ==
    "Failed to process the study guide from the AI. The response was not in the expected JSON format. Please try again."

UnknownMsg ==
    "An unknown error occurred. Please check the developer console for more details."

NetworkMsg ==
    "A network error occurred while communicating with the AI. Please check your internet connection."

CouldNotReadMsg ==
    "Could not read the file. Please try a different audio or video format."

ReaderErrorMsg ==
    "Error reading file. It may be corrupted or in an unsupported format."

\* What localStorage.setItem throws when the quota is exceeded (a DOMException,
\* which is an Error).
QuotaMsg == "Failed to execute 'setItem' on 'Storage': Setting the value of 'studyHistory' exceeded the quota."

\* Causes with which a remote call can be rejected.
Causes ==
    { Err("xhr error: request timed out"),
      Err("got status: 500 Internal Server Error"),
      Err("Transcription failed upstream with status 500"),
      Err("Transcription failed: model overloaded"),
      Err("fetch failed") }

\* The catch block of handleGenerate: the { message, retryable } for a thrown value.
ClassifyMutRetryableAlways(err) ==
    IF ~err.isError THEN [message |-> UnknownMsg, retryable |-> TRUE]
    ELSE IF Includes(err.message, "xhr error") \/ Includes(err.message, "500")
         THEN [message |-> NetworkMsg, retryable |-> TRUE]
    ELSE [message |-> err.message, retryable |-> TRUE]

ClassifyMutFailedPrefix(err) ==
    IF ~err.isError THEN [message |-> UnknownMsg, retryable |-> TRUE]
    ELSE IF Includes(err.message, "xhr error") \/ Includes(err.message, "500")
         THEN [message |-> NetworkMsg, retryable |-> TRUE]
    ELSE IF Includes(err.message, "Failed")
         THEN [message |-> err.message, retryable |-> FALSE]
    ELSE [message |-> err.message, retryable |-> TRUE]

ClassifyMutFailedFirst(err) ==
    IF ~err.isError THEN [message |-> UnknownMsg, retryable |-> TRUE]
    ELSE IF Includes(err.message, "Transcription failed")
         THEN [message |-> err.message, retryable |-> FALSE]
    ELSE IF Includes(err.message, "xhr error") \/ Includes(err.message, "500")
         THEN [message |-> NetworkMsg, retryable |-> TRUE]
    ELSE [message |-> err.message, retryable |-> TRUE]

Classify(err) ==
    IF ~err.isError THEN [message |-> UnknownMsg, retryable |-> TRUE]
    ELSE IF Includes(err.message, "xhr error") \/ Includes(err.message, "500")
         THEN [message |-> NetworkMsg, retryable |-> TRUE]
    ELSE IF Includes(err.message, "Transcription failed")
         THEN [message |-> err.message, retryable |-> FALSE]
    ELSE [message |-> err.message, retryable |-> TRUE]

----------------------------------------------------------------------------
(* Study materials and the stage-2 response *)

Fields ==
    {"summary", "keySections", "formulas", "glossary", "examQuestions",
     "transcript", "detailedNotes"}

\* A field's value is written as a text.  Undefined stands for a property that
\* is missing or undefined, Null for the JSON value null; neither is a text any
\* stage returns.
Undefined == "<undefined>"

Null == "<null>"

\* The JSON documents whose parse is known: text, and the value of each of the
\* seven properties of the parsed value (Undefined where it has none).
FullDoc ==
    "{\"summary\":\"S\",\"keySections\":[\"K\"],\"formulas\":[\"F = m*a\"],\"glossary\":[],\"examQuestions\":[\"Q\"]}"

FullGuide ==
    [f \in Fields |->
        CASE f = "summary" -> "S"
          [] f = "keySections" -> "[K]"
          [] f = "formulas" -> "[F = m*a]"
          [] f = "glossary" -> "[]"
          [] f = "examQuestions" -> "[Q]"
          [] OTHER -> Undefined]

NoGuide == [f \in Fields |-> Undefined]

\* A response that also carries the two keys the pipeline fills in itself.
OverrideDoc ==
    "{\"summary\":\"S\",\"keySections\":[\"K\"],\"formulas\":[\"F = m*a\"],\"glossary\":[],\"examQuestions\":[\"Q\"],\"transcript\":\"T2\",\"detailedNotes\":\"N2\"}"

OverrideGuide == [FullGuide EXCEPT !["transcript"] = "T2", !["detailedNotes"] = "N2"]

NullSummaryGuide == [FullGuide EXCEPT !["summary"] = Null]

JsonDocs ==
    { [text |-> FullDoc, props |-> FullGuide],
      [text |-> "{}", props |-> NoGuide],
      [text |-> "null", props |-> NoGuide],
      [text |-> "{\"summary\":null,\"keySections\":[\"K\"],\"formulas\":[\"F = m*a\"],\"glossary\":[],\"examQuestions\":[\"Q\"]}",
       props |-> NullSummaryGuide],
      [text |-> OverrideDoc, props |-> OverrideGuide] }

\* JSON.parse: the parsed value, or a SyntaxError.
JSONParse(text) ==
    IF \E d \in JsonDocs : d.text = text
    THEN [ok |-> TRUE, props |-> (CHOOSE d \in JsonDocs : d.text = text).props]
    ELSE [ok |-> FALSE, props |-> NoGuide]

\* The fence markers ("~" stands for the backquote).
FenceJson == "~~~json"

Fence == "~~~"

\* Lines 347-353: trim, then strip a markdown code block.
StripFence(raw) ==
    LET jsonText == Trim(raw)
    IN  IF StartsWith(jsonText, FenceJson) THEN Trim(SliceFromTo(jsonText, 7, 3))
        ELSE IF StartsWith(jsonText, Fence) THEN Trim(SliceFromTo(jsonText, 3, 3))
        ELSE jsonText

\* Lines 345-359: the parse of studyGuideResult.text.  An undefined text makes
\* .trim() throw, which the same try block catches.
ParseStudyGuide(text) ==
    IF text = None THEN [ok |-> FALSE, props |-> NoGuide]
    ELSE JSONParse(StripFence(text[1]))

\* The texts the stage-2 call can resolve with.
GuideTexts ==
    { Some(FullDoc),
      Some(FenceJson \o "\n" \o FullDoc \o "\n" \o Fence),
      Some(Fence \o "\n" \o FullDoc \o "\n" \o Fence),
      Some("{}"),
      Some("{\"summary\":\"S\","),
      Some(FenceJson \o "\n" \o FullDoc),
      None }

\* The texts the stage-1 call can resolve with.
TranscriptTexts == { Some("Newton's second law: F = m*a."), Some(""), Some("   "), None }

\* The texts the stage-3 call can resolve with.
NotesTexts == { Some("# Force\n* F = m*a") }

\* The value of an optional text as a field value.
FieldOf(opt) == IF opt = None THEN Undefined ELSE opt[1]

\* Lines 383-387: { ...parsedStudyGuide, transcript, detailedNotes }.
FinalMaterialsMutSpreadLast(props, transcript, notes) ==
    [f \in Fields |->
        IF props[f] # Undefined THEN props[f]
        ELSE IF f = "transcript" THEN transcript
        ELSE IF f = "detailedNotes" THEN FieldOf(notes)
        ELSE props[f]]

FinalMaterials(props, transcript, notes) ==
    [f \in Fields |->
        IF f = "transcript" THEN transcript
        ELSE IF f = "detailedNotes" THEN FieldOf(notes)
        ELSE props[f]]

\* The prompts of the three calls.
TranscriptionPrompt ==
    "Transcribe the provided audio lecture precisely into English. Return only the raw text of the English transcript, and nothing else."

StudyGuidePrompt(transcript) ==
    "Based on the following transcription of a lecture, generate a comprehensive study guide. The output must be a single, valid JSON object.\n\nThe JSON object must contain these fields:\n1. \"summary\": A concise summary of the entire lecture.\n2. \"keySections\": A bulleted list of the main topics discussed.\n3. \"formulas\": A list of all formulas mentioned. If none, return an empty array.\n4. \"glossary\": A list of key terms and their definitions. Each item should be an object with \"term\" and \"definition\" properties. If none, return an empty array.\n5. \"examQuestions\": A list of 3-5 potential exam questions based on the content.\n\nHere is the transcript:\n---\n"
    \o transcript \o "\n---"

DetailedNotesPrompt(transcript) ==
    "Transform the following lecture transcript into a set of high-quality, detailed study notes. The notes should be well-structured, easy to read, and capture the essence of the lecture. Do not just reformat the transcript. Instead, synthesize the information, organize it logically under clear headings, and use bullet points to break down complex topics. Focus on key concepts, definitions, examples, and conclusions. The final output should be formatted in clean markdown.\n\n      Transcript:\n      ---\n      "
    \o transcript \o "\n      ---"

----------------------------------------------------------------------------
(* History and its persisted form *)

Sections == {"notes", "detailed", "transcript"}

OldMaterials ==
    [f \in Fields |->
        CASE f = "transcript" -> "An earlier lecture."
          [] f = "detailedNotes" -> "# Earlier"
          [] OTHER -> FullGuide[f]]

\* An item an earlier session saved for the file a.mp3.
OldItem == [id |-> 0, filename |-> "a.mp3", materials |-> OldMaterials]

\* The value under the localStorage key 'studyHistory': absent, a text that is
\* not JSON, or the JSON text of a list of history items.
Absent == [kind |-> "absent", items |-> <<>>]

Corrupt == [kind |-> "corrupt", items |-> <<>>]

\* JSON.stringify of a history list.  A property that is undefined is left out
\* of the text, and reads back as undefined: Undefined stands for both.
Stringify(list) == [kind |-> "json", items |-> list]

\* The values the key can hold when the page is opened.
InitialBlobs == { Absent, Corrupt, Stringify(<<OldItem>>) }

\* Lines 153-163: the history after the load effect, and what the key holds.
LoadHistoryMutKeepBlob(blob) ==
    CASE blob.kind = "absent" -> [history |-> <<>>, storage |-> blob]
      [] blob.kind = "json" -> [history |-> blob.items, storage |-> blob]
      [] OTHER -> [history |-> <<>>, storage |-> blob]

LoadHistory(blob) ==
    CASE blob.kind = "absent" -> [history |-> <<>>, storage |-> blob]
      [] blob.kind = "json" -> [history |-> blob.items, storage |-> blob]
      [] OTHER -> [history |-> <<>>, storage |-> Absent]

\* Line 171: [newItem, ...history].
Prepend(item, list) == <<item>> \o list

\* Line 177: history.filter(item => item.id !== id).
RECURSIVE WithoutIdMutInverted(_, _)
WithoutIdMutInverted(list, id) ==
    IF list = <<>> THEN <<>>
    ELSE IF Head(list).id = id THEN <<Head(list)>> \o WithoutIdMutInverted(Tail(list), id)
    ELSE WithoutIdMutInverted(Tail(list), id)

RECURSIVE WithoutId(_, _)
WithoutId(list, id) ==
    IF list = <<>> THEN <<>>
    ELSE IF Head(list).id # id THEN <<Head(list)>> \o WithoutId(Tail(list), id)
    ELSE WithoutId(Tail(list), id)

----------------------------------------------------------------------------
(* Progress, in hundredths of a percent point *)

\* Line 259: the simulated progress stops at 99.
ProgressCap == 9900

\* Lines 307, 343, 381: setProgress(100).
ProgressFull == 10000

\* Lines 258-265: the updater of one interval tick, (99 - prev) * 0.05 rounded
\* down to a hundredth.
TickValueMutTowardsFull(prev) ==
    IF prev >= ProgressFull THEN ProgressFull
    ELSE prev + ((ProgressFull - prev) * 5) \div 100

TickValue(prev) ==
    IF prev >= ProgressCap THEN ProgressCap
    ELSE prev + ((ProgressCap - prev) * 5) \div 100

RECURSIVE ProgressAfter(_)
ProgressAfter(n) == IF n = 0 THEN 0 ELSE TickValue(ProgressAfter(n - 1))

----------------------------------------------------------------------------
(* State *)

VARIABLES
    apiKey,              \* line 7: whether process.env.API_KEY is set
    mediaFile,           \* line 137: the selected File (its name), or None
    audioData,           \* line 138: { data, mimeType }, or None
    isProcessing,        \* line 139
    loadingMessage,      \* line 140
    studyMaterials,      \* line 141: the displayed record, or None
    error,               \* line 142: { message, retryable }, or None
    activeTab,           \* line 143
    progress,            \* line 145
    history,             \* line 146
    downloadingSection,  \* line 147: the section being exported, or None
    timer,               \* line 150: progressIntervalRef and its interval:
                         \*   "none" (ref is null), "running", "cleared"
    storage,             \* localStorage key 'studyHistory'
    now,                 \* Date.now()
    readers,             \* files whose FileReader callback is still due
    runs,                \* handleGenerate invocations suspended at an await
    failedMedia,         \* observation: the media sent by the run whose failure
                         \*   set the error now shown (None for any other error)
    mounted              \* lines 247-253: the component has not been torn down

vars ==
    <<apiKey, mediaFile, audioData, isProcessing, loadingMessage, studyMaterials,
      error, activeTab, progress, history, downloadingSection, timer, storage,
      now, readers, runs, failedMedia, mounted>>

\* Lines 137-150 and the load effect of lines 153-163, for the values the
\* key 'studyHistory' can hold when the page is opened.
InitFrom(blobs) ==
    /\ apiKey \in BOOLEAN
    /\ mediaFile = None
    /\ audioData = None
    /\ isProcessing = FALSE
    /\ loadingMessage = ""
    /\ studyMaterials = None
    /\ error = None
    /\ activeTab = "notes"
    /\ progress = 0
    /\ downloadingSection = None
    /\ timer = "none"
    /\ now = 1
    /\ readers = {}
    /\ runs = <<>>
    /\ failedMedia = None
    /\ mounted = TRUE
    /\ \E blob \in blobs :
          /\ history = LoadHistory(blob).history
          /\ storage = LoadHistory(blob).storage

Init == InitFrom(InitialBlobs)

\* The page is opened on a key that holds a text that is not JSON.
InitCorrupt == InitFrom({Corrupt})

RemoveAt(seq, i) == SubSeq(seq, 1, i - 1) \o SubSeq(seq, i + 1, Len(seq))

\* if (progressIntervalRef.current) clearInterval(progressIntervalRef.current)
ClearedMutKeepsRunning(t) == t

Cleared(t) == IF t = "none" THEN "none" ELSE "cleared"

----------------------------------------------------------------------------
(* File selection: processFile and the FileReader callbacks *)

\* Lines 193-217 up to reader.readAsDataURL(file).
ProcessFile(f) ==
    /\ f \in readers \/ Cardinality(readers) < MaxReaders
    /\ mediaFile' = Some(f)
    /\ studyMaterials' = None
    /\ error' = None
    /\ failedMedia' = None
    /\ audioData' = None
    /\ readers' = readers \cup {f}
    /\ UNCHANGED <<apiKey, mounted, isProcessing, loadingMessage, activeTab, progress, history,
                   downloadingSection, timer, storage, now, runs>>

\* Lines 201-211: reader.onloadend after a successful read.
ReaderLoadEnd(f, result) ==
    /\ f \in readers
    /\ readers' = readers \ {f}
    /\ LET base64Data == SplitPayload(result)
           mimeType == MimeOf(SplitHeader(result))
       IN  IF Truthy(base64Data) /\ Truthy(mimeType)
           THEN /\ audioData' = Some([data |-> base64Data[1], mimeType |-> mimeType[1]])
                /\ UNCHANGED <<error, failedMedia>>
           ELSE /\ error' = Some([message |-> CouldNotReadMsg, retryable |-> FALSE])
                /\ failedMedia' = None
                /\ audioData' = audioData
    /\ UNCHANGED <<apiKey, mounted, mediaFile, isProcessing, loadingMessage, studyMaterials,
                   activeTab, progress, history, downloadingSection, timer, storage,
                   now, runs>>

\* Lines 212-214: reader.onerror.  The loadend event that follows finds
\* reader.result null, so its handler throws at result.split and sets nothing.
ReaderError(f) ==
    /\ f \in readers
    /\ readers' = readers \ {f}
    /\ error' = Some([message |-> ReaderErrorMsg, retryable |-> FALSE])
    /\ failedMedia' = None
    /\ UNCHANGED <<apiKey, mounted, mediaFile, audioData, isProcessing, loadingMessage,
                   studyMaterials, activeTab, progress, history, downloadingSection,
                   timer, storage, now, runs>>

----------------------------------------------------------------------------
(* The pipeline: handleGenerate, lines 269-414 *)

Step1Msg == "Step 1/3: Transcribing audio..."

Step2Msg == "Step 2/3: Analyzing transcript and generating study guide..."

Step3Msg == "Step 3/3: Composing detailed lecture notes..."

\* One remote call as issued: generateContent with the inline media (stage 1)
\* or with a text prompt alone (stages 2 and 3).
Call(op, media, text) == [op |-> op, media |-> media, text |-> text]

\* The places where a run is suspended.
CallPcs == {"transcribing", "summarizing", "composing"}

\* Line 524: the Generate button is enabled.
GenerateEnabledMutIgnoreBusy == mediaFile # None /\ audioData # None

GenerateEnabled == mediaFile # None /\ audioData # None /\ ~isProcessing

\* Line 530: ErrorDisplay gets onRetry, so the Try Again button is shown.
RetryOffered == error # None /\ error[1].retryable

\* Lines 279-304: the run becomes in flight and the stage-1 call is issued.
\* The closure holds audioData, mediaFile and history of the render that
\* created this handleGenerate (line 414), which is the current one.  calls
\* is an observation: the remote calls the run has issued.
StartRunMutKeepsError ==
    /\ now <= MaxClock
    /\ isProcessing' = TRUE
    /\ error' = error
    /\ failedMedia' = None
    /\ studyMaterials' = None
    /\ progress' = 0
    /\ loadingMessage' = Step1Msg
    /\ timer' = "running"
    /\ runs' = Append(runs,
                      [pc |-> "transcribing",
                       audio |-> audioData[1],
                       file |-> mediaFile[1],
                       hist |-> history,
                       transcript |-> "",
                       props |-> NoGuide,
                       calls |-> <<Call("transcribe", audioData, TranscriptionPrompt)>>])
    /\ UNCHANGED <<apiKey, mounted, mediaFile, audioData, activeTab, history, downloadingSection,
                   storage, now, readers>>

StartRun ==
    /\ now <= MaxClock
    /\ isProcessing' = TRUE
    /\ error' = None
    /\ failedMedia' = None
    /\ studyMaterials' = None
    /\ progress' = 0
    /\ loadingMessage' = Step1Msg
    /\ timer' = "running"
    /\ runs' = Append(runs,
                      [pc |-> "transcribing",
                       audio |-> audioData[1],
                       file |-> mediaFile[1],
                       hist |-> history,
                       transcript |-> "",
                       props |-> NoGuide,
                       calls |-> <<Call("transcribe", audioData, TranscriptionPrompt)>>])
    /\ UNCHANGED <<apiKey, mounted, mediaFile, audioData, activeTab, history, downloadingSection,
                   storage, now, readers>>

\* Lines 269-304: handleGenerate up to its first await.
HandleGenerateMutMediaFirst ==
    IF audioData = None \/ mediaFile = None
    THEN /\ error' = Some([message |-> NotReadyMsg, retryable |-> TRUE])
         /\ failedMedia' = None
         /\ UNCHANGED <<apiKey, mounted, mediaFile, audioData, isProcessing, loadingMessage,
                        studyMaterials, activeTab, progress, history,
                        downloadingSection, timer, storage, now, readers, runs>>
    ELSE IF ~apiKey
    THEN /\ error' = Some([message |-> ApiKeyMsg, retryable |-> FALSE])
         /\ failedMedia' = None
         /\ UNCHANGED <<apiKey, mounted, mediaFile, audioData, isProcessing, loadingMessage,
                        studyMaterials, activeTab, progress, history,
                        downloadingSection, timer, storage, now, readers, runs>>
    ELSE StartRun

HandleGenerate ==
    IF ~apiKey
    THEN /\ error' = Some([message |-> ApiKeyMsg, retryable |-> FALSE])
         /\ failedMedia' = None
         /\ UNCHANGED <<apiKey, mounted, mediaFile, audioData, isProcessing, loadingMessage,
                        studyMaterials, activeTab, progress, history,
                        downloadingSection, timer, storage, now, readers, runs>>
    ELSE IF audioData = None \/ mediaFile = None
    THEN /\ error' = Some([message |-> NotReadyMsg, retryable |-> TRUE])
         /\ failedMedia' = None
         /\ UNCHANGED <<apiKey, mounted, mediaFile, audioData, isProcessing, loadingMessage,
                        studyMaterials, activeTab, progress, history,
                        downloadingSection, timer, storage, now, readers, runs>>
    ELSE StartRun

\* Line 524: a click on the Generate button.
ClickGenerate == GenerateEnabled /\ HandleGenerate

\* Line 530 (and 54-58): a click on Try Again.
ClickRetry == RetryOffered /\ HandleGenerate

\* Lines 393-413: catch and finally.  Run i ends with the thrown value err.
FailRunMutStaysBusy(i, err) ==
    /\ error' = Some(Classify(err))
    /\ failedMedia' = Some(runs[i].audio)
    /\ timer' = Cleared(timer)
    /\ isProcessing' = isProcessing
    /\ loadingMessage' = ""
    /\ progress' = 0
    /\ runs' = RemoveAt(runs, i)

FailRunMutKeepsProgress(i, err) ==
    /\ error' = Some(Classify(err))
    /\ failedMedia' = Some(runs[i].audio)
    /\ timer' = Cleared(timer)
    /\ isProcessing' = FALSE
    /\ loadingMessage' = ""
    /\ progress' = progress
    /\ runs' = RemoveAt(runs, i)

FailRun(i, err) ==
    /\ error' = Some(Classify(err))
    /\ failedMedia' = Some(runs[i].audio)
    /\ timer' = Cleared(timer)
    /\ isProcessing' = FALSE
    /\ loadingMessage' = ""
    /\ progress' = 0
    /\ runs' = RemoveAt(runs, i)

\* The frame of a step that fails before it has set anything else.
FailOnlyMutPartial(i, err) ==
    /\ FailRun(i, err)
    /\ studyMaterials' = Some(FinalMaterials(runs[i].props, runs[i].transcript, None))
    /\ UNCHANGED <<apiKey, mounted, mediaFile, audioData, activeTab, history,
                   downloadingSection, storage, now, readers>>

FailOnly(i, err) ==
    /\ FailRun(i, err)
    /\ UNCHANGED <<apiKey, mounted, mediaFile, audioData, studyMaterials, activeTab, history,
                   downloadingSection, storage, now, readers>>

\* Lines 301-304, 337-341, 375-378: the awaited call is rejected.
CallRejected(i, cause) ==
    /\ runs[i].pc \in CallPcs
    /\ FailOnly(i, cause)

\* Line 309: !transcript?.trim()
IsEmptyTranscriptMutNoTrim(text) == text = None \/ text[1] = ""

IsEmptyTranscript(text) == text = None \/ Trim(text[1]) = ""

\* Lines 306-312: the stage-1 call resolves with transcriptionResult.text = text.
TranscribeResolved(i, text) ==
    /\ runs[i].pc = "transcribing"
    /\ IF IsEmptyTranscript(text)
       THEN FailOnly(i, Err(EmptyTranscriptMsg))
       ELSE /\ timer' = Cleared(timer)
            /\ progress' = ProgressFull
            /\ runs' = [runs EXCEPT ![i].pc = "pause1", ![i].transcript = text[1]]
            /\ UNCHANGED <<apiKey, mounted, failedMedia, mediaFile, audioData,
                           isProcessing, loadingMessage,
                           studyMaterials, error, activeTab, history,
                           downloadingSection, storage, now, readers>>

\* Lines 312-341: the 500 ms pause ends and the stage-2 call is issued.
StartStage2(i) ==
    /\ runs[i].pc = "pause1"
    /\ loadingMessage' = Step2Msg
    /\ progress' = 0
    /\ timer' = "running"
    /\ runs' = [runs EXCEPT
                  ![i].pc = "summarizing",
                  ![i].calls = Append(@, Call("generateStructured", None,
                                              StudyGuidePrompt(runs[i].transcript)))]
    /\ UNCHANGED <<apiKey, mounted, failedMedia, mediaFile, audioData, isProcessing,
                   studyMaterials, error,
                   activeTab, history, downloadingSection, storage, now, readers>>

\* Lines 342-359: the stage-2 call resolves with studyGuideResult.text = text.
StructuredResolved(i, text) ==
    /\ runs[i].pc = "summarizing"
    /\ LET parsed == ParseStudyGuide(text)
       IN  IF ~parsed.ok
           THEN FailOnly(i, Err(MalformedMsg))
           ELSE /\ timer' = Cleared(timer)
                /\ progress' = ProgressFull
                /\ runs' = [runs EXCEPT ![i].pc = "pause2", ![i].props = parsed.props]
                /\ UNCHANGED <<apiKey, mounted, failedMedia, mediaFile, audioData, isProcessing,
                               loadingMessage, studyMaterials, error, activeTab,
                               history, downloadingSection, storage, now, readers>>

\* Lines 361-378: the 500 ms pause ends and the stage-3 call is issued.
StartStage3(i) ==
    /\ runs[i].pc = "pause2"
    /\ loadingMessage' = Step3Msg
    /\ progress' = 0
    /\ timer' = "running"
    /\ runs' = [runs EXCEPT
                  ![i].pc = "composing",
                  ![i].calls = Append(@, Call("generateText", None,
                                              DetailedNotesPrompt(runs[i].transcript)))]
    /\ UNCHANGED <<apiKey, mounted, failedMedia, mediaFile, audioData, isProcessing,
                   studyMaterials, error,
                   activeTab, history, downloadingSection, storage, now, readers>>

\* Lines 165-170: the item handleSaveToHistory builds.
NewItem(filename, materials) == [id |-> now, filename |-> filename, materials |-> materials]

\* Lines 380-391 and 408-413: the stage-3 call resolves with
\* detailedNotesResult.text = text; the record is shown and saved
\* (handleSaveToHistory, lines 165-174, with the history the closure holds).
\* written tells whether localStorage.setItem succeeds; when it throws, the
\* catch block runs after setStudyMaterials and setHistory were called.
NotesResolved(i, text, written) ==
    /\ runs[i].pc = "composing"
    /\ LET finalMaterials == FinalMaterials(runs[i].props, runs[i].transcript, text)
           updatedHistory == Prepend(NewItem(runs[i].file, finalMaterials), runs[i].hist)
       IN  /\ studyMaterials' = Some(finalMaterials)
           /\ history' = updatedHistory
           /\ IF written
              THEN /\ storage' = Stringify(updatedHistory)
                   /\ activeTab' = "notes"
                   /\ UNCHANGED <<error, failedMedia>>
                   /\ timer' = Cleared(timer)
                   /\ isProcessing' = FALSE
                   /\ loadingMessage' = ""
                   /\ progress' = 0
                   /\ runs' = RemoveAt(runs, i)
              ELSE /\ FailRun(i, Err(QuotaMsg))
                   /\ UNCHANGED <<storage, activeTab>>
    /\ now' = now + 1
    /\ UNCHANGED <<apiKey, mounted, mediaFile, audioData, downloadingSection, readers>>

\* Lines 257-266: one tick of the progress interval.
Tick ==
    /\ timer = "running"
    /\ progress < ProgressAfter(MaxTicks)
    /\ progress' = TickValue(progress)
    /\ timer' = IF progress >= ProgressCap THEN "cleared" ELSE timer
    /\ UNCHANGED <<apiKey, mounted, failedMedia, mediaFile, audioData, isProcessing, loadingMessage,
                   studyMaterials, error, activeTab, history, downloadingSection,
                   storage, now, readers, runs>>

----------------------------------------------------------------------------
(* History list, tabs and export *)

\* Lines 176-180: a click on Delete of the item with this id.  The new text
\* is shorter than the stored one, so setItem does not exceed the quota.
HandleDeleteFromHistory(id) ==
    /\ \E k \in 1..Len(history) : history[k].id = id
    /\ LET updatedHistory == WithoutId(history, id)
       IN  /\ history' = updatedHistory
           /\ storage' = Stringify(updatedHistory)
    /\ UNCHANGED <<apiKey, mounted, failedMedia, mediaFile, audioData, isProcessing, loadingMessage,
                   studyMaterials, error, activeTab, progress, downloadingSection,
                   timer, now, readers, runs>>

\* Lines 182-190: a click on View of the k-th item.
HandleViewFromHistory(k) ==
    /\ k \in 1..Len(history)
    /\ studyMaterials' = Some(history[k].materials)
    /\ mediaFile' = Some(history[k].filename)
    /\ activeTab' = "notes"
    /\ UNCHANGED <<apiKey, mounted, failedMedia, audioData, isProcessing, loadingMessage,
                   error, progress,
                   history, downloadingSection, timer, storage, now, readers, runs>>

\* Lines 558-566: a click on a tab (the tabs are shown with a record).
SetActiveTab(tab) ==
    /\ studyMaterials # None
    /\ tab # activeTab
    /\ activeTab' = tab
    /\ UNCHANGED <<apiKey, mounted, failedMedia, mediaFile, audioData, isProcessing, loadingMessage,
                   studyMaterials, error, progress, history, downloadingSection,
                   timer, storage, now, readers, runs>>

PdfTitle(section) ==
    CASE section = "notes" -> "Study Notes"
      [] section = "detailed" -> "Detailed Notes"
      [] OTHER -> "Transcript"

\* Lines 427-457: a click on Download PDF of the shown tab, up to the await.
HandleDownload ==
    /\ studyMaterials # None
    /\ mediaFile # None
    /\ downloadingSection = None
    /\ downloadingSection' = Some(activeTab)
    /\ UNCHANGED <<apiKey, mounted, failedMedia, mediaFile, audioData, isProcessing, loadingMessage,
                   studyMaterials, error, activeTab, progress, history, timer,
                   storage, now, readers, runs>>

\* Lines 459-488: the export ends; rendered tells whether html2canvas and
\* jsPDF succeeded.
DownloadSettled(rendered) ==
    /\ downloadingSection # None
    /\ downloadingSection' = None
    /\ error' = IF rendered THEN error
                ELSE Some([message |-> "Sorry, there was an error creating the PDF for "
                                        \o PdfTitle(downloadingSection[1]) \o ".",
                           retryable |-> FALSE])
    /\ failedMedia' = IF rendered THEN failedMedia ELSE None
    /\ UNCHANGED <<apiKey, mounted, mediaFile, audioData, isProcessing, loadingMessage,
                   studyMaterials, activeTab, progress, history, timer, storage, now,
                   readers, runs>>

----------------------------------------------------------------------------
(* The system: files, pipeline and history *)

Ids == 0..MaxClock

RunIdx == 1..Len(runs)

Next ==
    \/ \E f \in FileNames : ProcessFile(f)
    \/ \E f \in FileNames : \E result \in ReadResults(f) : ReaderLoadEnd(f, result)
    \/ \E f \in FileNames : ReaderError(f)
    \/ ClickGenerate
    \/ ClickRetry
    \/ \E i \in RunIdx, cause \in Causes : CallRejected(i, cause)
    \/ \E i \in RunIdx, text \in TranscriptTexts : TranscribeResolved(i, text)
    \/ \E i \in RunIdx : StartStage2(i)
    \/ \E i \in RunIdx, text \in GuideTexts : StructuredResolved(i, text)
    \/ \E i \in RunIdx : StartStage3(i)
    \/ \E i \in RunIdx, text \in NotesTexts, written \in BOOLEAN : NotesResolved(i, text, written)
    \/ \E id \in Ids : HandleDeleteFromHistory(id)
    \/ \E k \in 1..Len(history) : HandleViewFromHistory(k)

Spec == Init /\ [][Next]_vars

\* The same with the ticks of the progress interval.
NextTimer ==
    \/ Next
    \/ Tick

SpecTimer == Init /\ [][NextTimer]_vars

\* The files, pipeline and history after a load that found no JSON.
SpecCorrupt == InitCorrupt /\ [][Next]_vars

\* Lines 286-413: the steps a run takes by itself, when its awaited call
\* settles or the 500 ms pause between two stages is over.
RunStep ==
    \/ \E i \in RunIdx, cause \in Causes : CallRejected(i, cause)
    \/ \E i \in RunIdx, text \in TranscriptTexts : TranscribeResolved(i, text)
    \/ \E i \in RunIdx : StartStage2(i)
    \/ \E i \in RunIdx, text \in GuideTexts : StructuredResolved(i, text)
    \/ \E i \in RunIdx : StartStage3(i)
    \/ \E i \in RunIdx, text \in NotesTexts, written \in BOOLEAN : NotesResolved(i, text, written)

\* Files, pipeline and history when every awaited call settles and every
\* pause ends.
SpecLive == Init /\ [][Next]_vars /\ WF_vars(RunStep)

\* Files, pipeline and history when the stage-2 response may also carry the
\* keys transcript and detailedNotes.
NextGuide ==
    \/ Next
    \/ \E i \in RunIdx : StructuredResolved(i, Some(OverrideDoc))

SpecGuide == Init /\ [][NextGuide]_vars

\* Lines 247-253: the component is torn down; the cleanup of the effect
\* clears the interval the ref holds.
Unmount ==
    /\ mounted
    /\ mounted' = FALSE
    /\ timer' = Cleared(timer)
    /\ UNCHANGED <<apiKey, mediaFile, audioData, isProcessing, loadingMessage,
                   studyMaterials, error, activeTab, progress, history,
                   downloadingSection, storage, now, readers, runs, failedMedia>>

\* Files, pipeline, history and ticks with a teardown.  After it no user
\* event reaches the component, while a run under way goes on and the
\* interval, which is no React state, still fires; the state variables then
\* hold what the setters were last called with.
NextTeardown ==
    \/ mounted /\ NextTimer
    \/ Unmount
    \/ ~mounted /\ RunStep
    \/ ~mounted /\ Tick

SpecTeardown == Init /\ [][NextTeardown]_vars

\* The same with the tabs and the PDF export of the shown tab.
NextUI ==
    \/ Next
    \/ \E tab \in Sections : SetActiveTab(tab)
    \/ HandleDownload
    \/ \E rendered \in BOOLEAN : DownloadSettled(rendered)

SpecUI == Init /\ [][NextUI]_vars

----------------------------------------------------------------------------
(* Properties of the pipeline *)

\* C1: in every run the remote calls are issued in the order transcribe,
\* generateStructured, generateText, at most once each; the stage-2 call is
\* issued only after stage 1 returned a non-empty transcript, the stage-3 call
\* only after the stage-2 response parsed, the record is shown only by a run
\* whose three calls succeeded, and a run that fails issues no later call and
\* shows no record.
C1_StagesInOrder ==
    /\ [](\A i \in RunIdx :
            LET r == runs[i]
                ops == [k \in 1..Len(r.calls) |-> r.calls[k].op]
            IN  /\ ops = CASE r.pc \in {"transcribing", "pause1"} -> <<"transcribe">>
                           [] r.pc \in {"summarizing", "pause2"} ->
                                <<"transcribe", "generateStructured">>
                           [] OTHER -> <<"transcribe", "generateStructured", "generateText">>
                /\ r.pc # "transcribing" => Trim(r.transcript) # "")
    /\ [][\A i \in RunIdx :
            LET r == runs[i]
            IN  IF Len(runs') >= Len(runs)
                THEN LET q == runs'[i]
                     IN  \/ q = r
                         \/ /\ r.pc = "transcribing" /\ q.pc = "pause1"
                            /\ q.calls = r.calls
                         \/ /\ r.pc = "pause1" /\ q.pc = "summarizing"
                            /\ q.calls = Append(r.calls,
                                   Call("generateStructured", None, StudyGuidePrompt(r.transcript)))
                         \/ /\ r.pc = "summarizing" /\ q.pc = "pause2"
                            /\ q.calls = r.calls
                            /\ \E text \in GuideTexts :
                                  /\ ParseStudyGuide(text).ok
                                  /\ q.props = ParseStudyGuide(text).props
                         \/ /\ r.pc = "pause2" /\ q.pc = "composing"
                            /\ q.calls = Append(r.calls,
                                   Call("generateText", None, DetailedNotesPrompt(r.transcript)))
                ELSE runs' = RemoveAt(runs, i) =>
                        /\ ~isProcessing'
                        /\ \/ /\ error' # None /\ failedMedia' = Some(r.audio)
                              /\ UNCHANGED <<studyMaterials, history, storage>>
                           \/ /\ r.pc = "composing"
                              /\ studyMaterials' # None
                              /\ studyMaterials'[1]["transcript"] = r.transcript
                              /\ \A f \in Fields \ {"transcript", "detailedNotes"} :
                                    studyMaterials'[1][f] = r.props[f]]_vars

\* C1, reached: a run has issued its three calls and awaits the third.
C1_Witness ==
    \E i \in RunIdx : runs[i].pc = "composing" /\ Len(runs[i].calls) = 3

\* C2: at most one run is in flight; while a run is in flight the Generate
\* button is disabled and Try Again is not offered, so no user event starts a
\* second run or issues a remote call.
C2_OneRunInFlight ==
    /\ Len(runs) <= 1
    /\ isProcessing <=> runs # <<>>
    /\ runs # <<>> => ~GenerateEnabled /\ ~RetryOffered

\* C2, reached: a run is in flight while another file is selected and an error
\* is shown.
C2_Witness ==
    /\ Len(runs) = 1
    /\ error # None
    /\ mediaFile # None /\ mediaFile # Some(runs[1].file)

\* C3: when the stage-1 call resolves with an empty or whitespace-only
\* transcript, the run ends with the error shown as not retryable, having
\* issued the transcribe call alone.
C3_EmptyTranscriptFails ==
    [][\A i \in RunIdx, text \in TranscriptTexts :
          ( /\ text # None
            /\ \A k \in 1..Len(text[1]) : IsSpace(CharAt(text[1], k))
            /\ TranscribeResolved(i, text) )
          => /\ error' = Some([message |-> EmptyTranscriptMsg, retryable |-> FALSE])
             /\ runs' = RemoveAt(runs, i)
             /\ ~isProcessing'
             /\ Len(runs[i].calls) = 1 /\ runs[i].calls[1].op = "transcribe"
             /\ studyMaterials' = studyMaterials]_vars

\* C3, reached: a run has ended on an empty transcript.
C3_Witness ==
    /\ error = Some([message |-> EmptyTranscriptMsg, retryable |-> FALSE])
    /\ failedMedia # None
    /\ runs = <<>>

\* C4: a remote call rejected at any of the three stages ends the run with
\* the error shown as retryable, whatever the text of the cause.
C4_TransportRetryable ==
    [][\A i \in RunIdx, cause \in Causes :
          CallRejected(i, cause) => error' # None /\ error'[1].retryable]_vars

\* C5 as stated: the record displayed after a failed run is the record that
\* was displayed when the run was started.  The failing step changes nothing
\* of the displayed record (C5_FailureKeepsCurrent), so for the run that fails
\* right after its start this says that the start of a run keeps the
\* displayed record.
C5_FailureRestoresShown ==
    [][Len(runs') > Len(runs) => studyMaterials' = studyMaterials]_vars

\* C5, amended: the start of a run clears the displayed record, and a rejected
\* remote call leaves the displayed record as it was just before the failure
\* (nothing of the failed run is shown).
C5_FailureKeepsCurrent ==
    [][/\ Len(runs') > Len(runs) => studyMaterials' = None
       /\ \A i \in RunIdx, cause \in Causes :
             CallRejected(i, cause) => studyMaterials' = studyMaterials]_vars

\* C5, reached: a remote call was rejected while a record viewed from the
\* history during the run was displayed, and that record is still displayed.
C5_Witness ==
    /\ failedMedia # None
    /\ error = Some([message |-> NetworkMsg, retryable |-> TRUE])
    /\ studyMaterials = Some(OldMaterials)

\* C6: the record a completed run displays has all seven fields present and
\* non-null, and its transcript is not empty.
C6_RecordFullyPopulated ==
    [][\A i \in RunIdx, text \in NotesTexts :
          NotesResolved(i, text, TRUE)
          => /\ studyMaterials' # None
             /\ \A f \in Fields : studyMaterials'[1][f] \notin {Undefined, Null}
             /\ studyMaterials'[1]["transcript"] # ""]_vars

\* C7: Try Again after a retryable failure of a run starts a new run at stage 1
\* whose transcribe call sends the media the failed run sent.
C7_RetryResendsMedia ==
    [][(failedMedia # None /\ ClickRetry)
          => /\ Len(runs') = Len(runs) + 1
             /\ runs'[Len(runs')].pc = "transcribing"
             /\ runs'[Len(runs')].transcript = ""
             /\ runs'[Len(runs')].calls =
                    <<Call("transcribe", failedMedia, TranscriptionPrompt)>>
             /\ readers' = readers]_vars

\* C8: while the not retryable failure of a run is shown (no file has been
\* selected since; the failure is the empty transcript), Try Again is not
\* offered and no run starts.
C8_NoResubmission ==
    [][(failedMedia # None /\ error = Some([message |-> EmptyTranscriptMsg, retryable |-> FALSE]))
          => ~RetryOffered /\ Len(runs') <= Len(runs)]_vars

\* C9: when a run completes, the history becomes the new item (the run's file
\* name and its record) followed by the items the list held just before, in
\* their order, and the persisted list is the same.
C9_AppendKeepsList ==
    [][\A i \in RunIdx, text \in NotesTexts :
          NotesResolved(i, text, TRUE)
          => /\ history' =
                   <<[id |-> now, filename |-> runs[i].file,
                      materials |-> FinalMaterials(runs[i].props, runs[i].transcript, text)]>>
                   \o history
             /\ storage' = [kind |-> "json", items |-> history']]_vars

C12_FenceTransparent ==
    [][\A i \in RunIdx, d \in JsonDocs :
          \A text \in { d.text,
                        FenceJson \o "\n" \o d.text \o "\n" \o Fence,
                        Fence \o "\n" \o d.text \o "\n" \o Fence,
                        FenceJson \o "\n" \o d.text,
                        Fence \o "\n" \o d.text } :
             StructuredResolved(i, Some(text))
             => /\ Len(runs') = Len(runs)
                /\ runs'[i].pc = "pause2"
                /\ runs'[i].props = d.props]_vars

\* C13: when the stage-2 response does not parse, the run ends with the fixed
\* malformed-response message shown as retryable, having issued no stage-3
\* call, and the displayed record, the history and the persisted list are
\* unchanged.
C13_MalformedFails ==
    [][\A i \in RunIdx, text \in GuideTexts :
          ( /\ text = None \/ ~JSONParse(StripFence(text[1])).ok
            /\ StructuredResolved(i, text) )
          => /\ error' = Some([message |-> MalformedMsg, retryable |-> TRUE])
             /\ runs' = RemoveAt(runs, i)
             /\ ~isProcessing'
             /\ \A k \in 1..Len(runs[i].calls) : runs[i].calls[k].op # "generateText"
             /\ UNCHANGED <<studyMaterials, history, storage>>]_vars

\* C13, reached: a run has ended on a stage-2 response that did not parse.
C13_Witness ==
    /\ error = Some([message |-> MalformedMsg, retryable |-> TRUE])
    /\ failedMedia # None
    /\ runs = <<>>

\* C14: handleGenerate without a credential shows the not retryable
\* credential error, whether or not the media is ready; with a credential but
\* without the encoded media or the file it shows the retryable readiness
\* error; in both cases no run is started and the displayed record, progress,
\* timer, history and persisted list are unchanged.
C14_PreconditionsFailFast ==
    /\ ~apiKey =>
          ~ENABLED ( /\ HandleGenerate
                     /\ ~( /\ error' = Some([message |-> ApiKeyMsg, retryable |-> FALSE])
                           /\ UNCHANGED <<runs, isProcessing, studyMaterials, progress,
                                          timer, history, storage>> ) )
    /\ (apiKey /\ (audioData = None \/ mediaFile = None)) =>
          ~ENABLED ( /\ HandleGenerate
                     /\ ~( /\ error' = Some([message |-> NotReadyMsg, retryable |-> TRUE])
                           /\ UNCHANGED <<runs, isProcessing, studyMaterials, progress,
                                          timer, history, storage>> ) )

\* C14, reached: Try Again was clicked while the newly selected file was
\* still being read, and the readiness error is shown with no run started.
C14_Witness ==
    /\ error = Some([message |-> NotReadyMsg, retryable |-> TRUE])
    /\ audioData = None
    /\ runs = <<>> /\ ~isProcessing

\* C15: the progress interval runs only while a remote call of a run is
\* outstanding.
C15_TimerOnlyDuringCall ==
    timer = "running" => \E i \in RunIdx : runs[i].pc \in CallPcs

\* C15, reached: the stage-1 call has settled, the run is in the pause before
\* stage 2 and the interval is cleared.
C15_Witness ==
    /\ timer = "cleared"
    /\ Len(runs) = 1 /\ runs[1].pc = "pause1"
    /\ progress = ProgressFull

\* C16: a tick never lowers the progress value and never takes it above 99,
\* from whatever value at most 99; while a remote call is outstanding the value
\* is at most 99; and the value becomes 100 only in the step in which the
\* stage-1 or stage-2 call resolves and the run goes on.
C16_ProgressBelowFull ==
    /\ [](/\ \A k \in 0..99 :
               /\ TickValue(k * 100) >= k * 100
               /\ TickValue(k * 100) <= ProgressCap
          /\ (\E i \in RunIdx : runs[i].pc \in CallPcs) => progress <= ProgressCap)
    /\ [][/\ Tick => progress' >= progress /\ progress' <= ProgressCap
          /\ (progress' = ProgressFull /\ progress # ProgressFull) =>
                \E i \in RunIdx :
                   /\ Len(runs') = Len(runs)
                   /\ \/ runs[i].pc = "transcribing" /\ runs'[i].pc = "pause1"
                      \/ runs[i].pc = "summarizing" /\ runs'[i].pc = "pause2"]_vars

\* C16, reached: the interval has ticked while the stage-2 call is outstanding.
C16_Witness ==
    /\ Len(runs) = 1 /\ runs[1].pc = "summarizing"
    /\ timer = "running"
    /\ progress > 0 /\ progress < ProgressCap

\* C17: when every awaited call settles and every pause ends, a run that has
\* started ends and the application is no longer processing; the application
\* is processing exactly while a run is under way; and a run ends either
\* completed, showing its record, or with an error that is a message with a
\* retryable flag.
C17_RunsEnd ==
    /\ [](isProcessing <=> runs # <<>>)
    /\ (\E i \in RunIdx : runs[i].pc = "transcribing") ~> (runs = <<>> /\ ~isProcessing)
    /\ [][Len(runs') < Len(runs) =>
            /\ ~isProcessing' /\ runs' = <<>>
            /\ \/ /\ error' = error
                  /\ studyMaterials' # None
                  /\ Len(history') > 0 /\ studyMaterials' = Some(history'[1].materials)
               \/ /\ error' # None
                  /\ DOMAIN error'[1] = {"message", "retryable"}
                  /\ error'[1].retryable \in BOOLEAN
                  /\ error'[1].message \in
                        {NetworkMsg, EmptyTranscriptMsg, MalformedMsg, UnknownMsg, QuotaMsg}
                        \cup {c.message : c \in Causes}]_vars

\* C17, reached: a run has completed; its record is shown and is the first
\* history entry, and nothing is processing.
C17_Witness ==
    /\ runs = <<>> /\ ~isProcessing /\ error = None
    /\ Len(history) > 0 /\ history[1].id = now - 1 /\ history[1] # OldItem
    /\ studyMaterials = Some(history[1].materials)
    /\ loadingMessage = "" /\ progress = 0

\* C18: when the read of the selected file fails (reader error, or a result
\* without payload or content type), the error shown is not retryable and, in
\* the state the failure leaves, no run can be started: neither Generate nor
\* Try Again is available.
C18_FailedReadBlocksStart ==
    [][\A f \in FileNames :
          ( /\ mediaFile = Some(f)
            /\ \/ ReaderError(f)
               \/ \E result \in ReadResults(f) :
                     /\ ~(Truthy(SplitPayload(result)) /\ Truthy(MimeOf(SplitHeader(result))))
                     /\ ReaderLoadEnd(f, result) )
          => /\ error' # None /\ ~error'[1].retryable
             /\ ~GenerateEnabled' /\ ~RetryOffered']_vars

\* C19: whenever encoded media is present, a file is selected and the media
\* is what reading that file produces.
C19_MediaBelongsToFile ==
    audioData # None =>
        /\ mediaFile # None
        /\ audioData = Some(EncodedMedia(mediaFile[1]))

\* C20: a run that completes adds exactly one entry to the history, in front
\* and stamped with the current time, and the entry's filename names the file
\* whose bytes the run sent to the transcribe call; a run that ends because a
\* call was rejected or a stage rejected its response leaves the history as it
\* is.
C20_EntryNamesSentFile ==
    [][\A i \in RunIdx :
          /\ \A text \in NotesTexts :
                NotesResolved(i, text, TRUE) =>
                   /\ Len(history') >= 1
                   /\ history'[1].id = now
                   /\ \A k \in 2..Len(history') : history'[k].id # now
                   /\ runs[i].calls[1].media = Some(EncodedMedia(history'[1].filename))
          /\ ( \/ \E cause \in Causes : CallRejected(i, cause)
               \/ \E text \in TranscriptTexts :
                     IsEmptyTranscript(text) /\ TranscribeResolved(i, text)
               \/ \E text \in GuideTexts :
                     ~ParseStudyGuide(text).ok /\ StructuredResolved(i, text) )
             => history' = history]_vars

\* C21: when a run completes and saves its entry, every other entry of the
\* history and of the persisted list is an entry the history held just before:
\* an entry deleted while the run was under way stays absent from both.
C21_DeleteNotUndone ==
    [][\A i \in RunIdx, text \in NotesTexts :
          NotesResolved(i, text, TRUE) =>
             /\ \A k \in 1..Len(history') :
                   history'[k].id # now =>
                      \E j \in 1..Len(history) : history[j] = history'[k]
             /\ storage'.kind = "json"
             /\ \A k \in 1..Len(storage'.items) :
                   storage'.items[k].id # now =>
                      \E j \in 1..Len(history) : history[j] = storage'.items[k]]_vars

\* C22: after the component was torn down the progress interval is not
\* running, whatever a run under way does afterwards.
C22_NoTimerAfterTeardown ==
    ~mounted => timer # "running"

\* C23: the step that starts a run leaves no record, no error and progress 0,
\* with the one interval the ref holds newly started and the transcribe call
\* as the run's only call; the steps that start stage 2 and stage 3 set
\* progress to 0 and start the interval.
C23_EntryResets ==
    [][/\ Len(runs') > Len(runs) =>
             /\ studyMaterials' = None /\ error' = None /\ progress' = 0
             /\ isProcessing' /\ timer' = "running"
             /\ Len(runs'[Len(runs')].calls) = 1
       /\ \A i \in RunIdx :
             (StartStage2(i) \/ StartStage3(i)) =>
                /\ progress = ProgressFull
                /\ progress' = 0 /\ timer' = "running"]_vars

\* C23, reached: stage 2 has just started, with progress back at 0 after the
\* 100 that the end of stage 1 set.
C23_Witness ==
    /\ Len(runs) = 1 /\ runs[1].pc = "summarizing"
    /\ progress = 0 /\ timer = "running"
    /\ error = None /\ studyMaterials = None

\* C24: whenever nothing is processing, progress is 0 and the loading message
\* is empty; and every step that ends a run with an error leaves progress 0.
C24_IdleProgressZero ==
    /\ [](~isProcessing => progress = 0 /\ loadingMessage = "")
    /\ [][(Len(runs') < Len(runs) /\ error' # None /\ failedMedia' # None)
             => progress' = 0 /\ loadingMessage' = "" /\ ~isProcessing']_vars

\* C24, reached: a run has failed at stage 2 or 3 after the interval ticked,
\* and progress is 0.
C24_Witness ==
    /\ ~isProcessing /\ runs = <<>>
    /\ error # None /\ failedMedia # None
    /\ error[1].message \in {MalformedMsg, QuotaMsg}
    /\ progress = 0 /\ loadingMessage = "" /\ timer = "cleared"

\* C25: a rejected call is shown with the fixed network text exactly when the
\* cause's message contains "xhr error" or "500", and then as retryable, also
\* when the message contains the empty-transcript marker; every other cause
\* is shown with its own message; the same holds of the classification of
\* every cause and every message the pipeline throws itself.
C25_NetworkMarkerWins ==
    /\ \A err \in Causes \cup {Err(EmptyTranscriptMsg), Err(MalformedMsg), Err(QuotaMsg)} :
            LET marked == Includes(err.message, "xhr error") \/ Includes(err.message, "500")
                shown == Classify(err)
            IN  /\ shown.message = NetworkMsg <=> marked
                /\ marked => shown.retryable
                /\ ~marked => shown.message = err.message
    /\ [][\A i \in RunIdx, cause \in Causes :
            (runs[i].pc \in CallPcs /\ Len(runs') < Len(runs) /\ CallRejected(i, cause)) =>
               LET marked == Includes(cause.message, "xhr error")
                                \/ Includes(cause.message, "500")
               IN  /\ error' # None
                   /\ error'[1].message = NetworkMsg <=> marked
                   /\ marked => error'[1].retryable
                   /\ ~marked => error'[1].message = cause.message]_vars

\* C25, reached: a run ended with the network text shown as retryable.
C25_Witness ==
    /\ error = Some([message |-> NetworkMsg, retryable |-> TRUE])
    /\ failedMedia # None
    /\ runs = <<>> /\ ~isProcessing

\* C26: the transcript a run keeps is the text stage 1 returned; the five
\* structured fields it keeps are those of the parsed stage-2 response; the
\* stage-2 and stage-3 prompts contain that transcript; and the record the run
\* shows when stage 3 returns has that transcript, those five fields and the
\* stage-3 text as detailedNotes, also when the stage-2 response has its own
\* transcript and detailedNotes keys.
C26_RecordFromStages ==
    [][\A i \in RunIdx :
          /\ \A text \in TranscriptTexts :
                (runs[i].pc = "transcribing" /\ Len(runs') = Len(runs)
                    /\ TranscribeResolved(i, text))
                => runs'[i].transcript = text[1]
          /\ (runs[i].pc = "pause1" /\ StartStage2(i))
             => /\ runs'[i].transcript = runs[i].transcript
                /\ Includes(runs'[i].calls[2].text, runs[i].transcript)
          /\ \A text \in GuideTexts \cup {Some(OverrideDoc)} :
                (runs[i].pc = "summarizing" /\ Len(runs') = Len(runs)
                    /\ StructuredResolved(i, text))
                => /\ runs'[i].transcript = runs[i].transcript
                   /\ \A f \in Fields \ {"transcript", "detailedNotes"} :
                         runs'[i].props[f] = JSONParse(StripFence(text[1])).props[f]
          /\ (runs[i].pc = "pause2" /\ StartStage3(i))
             => /\ runs'[i].transcript = runs[i].transcript
                /\ runs'[i].props = runs[i].props
                /\ Includes(runs'[i].calls[3].text, runs[i].transcript)
          /\ \A text \in NotesTexts, written \in BOOLEAN :
                (runs[i].pc = "composing" /\ Len(runs') < Len(runs)
                    /\ NotesResolved(i, text, written))
                => /\ studyMaterials' # None
                   /\ studyMaterials'[1]["transcript"] = runs[i].transcript
                   /\ studyMaterials'[1]["detailedNotes"] = text[1]
                   /\ \A f \in Fields \ {"transcript", "detailedNotes"} :
                         studyMaterials'[1][f] = runs[i].props[f]]_vars

\* C26, reached: a run whose parsed stage-2 response carries its own
\* transcript key has issued the stage-3 call with its stage-1 transcript.
C26_Witness ==
    \E i \in RunIdx :
       /\ runs[i].pc = "composing"
       /\ runs[i].props["transcript"] = "T2"
       /\ runs[i].transcript = "Newton's second law: F = m*a."
       /\ Len(runs[i].calls) = 3

\* C27: the end of an export, failed or not, leaves the runs, the processing
\* flag, the record, progress and the history unchanged, keeps an error that a
\* run's failure has set, and empties the export marker; and an export starts
\* only when none is under way.
C27_ExportConfined ==
    [][/\ \A rendered \in BOOLEAN :
             (downloadingSection # None /\ DownloadSettled(rendered)) =>
                /\ UNCHANGED <<runs, isProcessing, studyMaterials, progress, history, storage>>
                /\ (error # None /\ failedMedia # None) => error' = error
                /\ downloadingSection' = None
       /\ (downloadingSection' # None /\ downloadingSection' # downloadingSection)
             => downloadingSection = None]_vars

\* C28: the step that ends a run either shows a new record or sets the error
\* of that run, never both and never neither; and when it sets the error the
\* persisted list is unchanged.
C28_ResultXorError ==
    [][\A i \in RunIdx :
          (Len(runs') < Len(runs) /\ runs' = RemoveAt(runs, i)) =>
             LET failed == error' # None /\ failedMedia' = Some(runs[i].audio)
                 shown == studyMaterials' # None /\ studyMaterials' # studyMaterials
             IN  /\ failed \/ shown
                 /\ ~(failed /\ shown)
                 /\ failed => storage' = storage]_vars

====
